---- MODULE Spec2Model ----
(***************************************************************************)
(* Model of modules/data_store.py: the process-wide DataStore singleton,   *)
(* its constructor, the fetch cycle _do_fetch, the background loop, and    *)
(* the client operations get_data, get_status, set_refresh_interval,       *)
(* force_refresh and stop.                                                 *)
(*                                                                         *)
(* Every thread has a program counter named after the source line it is    *)
(* about to execute ("L122" = data_store.py line 122).  Consecutive        *)
(* statements are one step only where no other thread can tell the         *)
(* difference: statements on locals, and statements that write attributes  *)
(* which every other thread accesses under _data_lock.  The publish        *)
(* section is two steps (lines 122-124, lines 125-129), so that it is the  *)
(* lock, not the model, that makes it atomic for readers.                  *)
(*                                                                         *)
(* Python's None is the empty tuple <<>>, a present value x is <<x>>.      *)
(***************************************************************************)
EXTENDS Integers, Sequences, FiniteSets, TLC

\* ------------------------------------------------------------------ bounds
MaxCycles == 3
MaxTicks == 1
TickSec == 150

\* ------------------------------------------------------- program constants
DEFAULT_REFRESH_INTERVAL == 300
MIN_REFRESH_INTERVAL == 60

\* ------------------------------------------------------------------ threads
Clients == {"c1", "c2"}
BgOf(c) == IF c = "c1" THEN "b1" ELSE "b2"
BgThreads == {BgOf(c) : c \in Clients}
ThreadNo(t) == CASE t \in {"c1", "f1", "b1"} -> 1
                 [] t \in {"c2", "f2", "b2"} -> 2
                 [] OTHER -> 3
\* the DataStore-ForceRefresh thread; force_refresh is modelled while no
\* earlier such thread is still running
ForceThreads == {"f1"}
Threads == Clients \cup ForceThreads \cup BgThreads
NoThread == "none"

\* values a caller may pass as refresh_interval to DataStore() and as
\* seconds to set_refresh_interval (numbers that timedelta accepts)
CtorArgs == {DEFAULT_REFRESH_INTERVAL, 10}
IntervalArgs == {10, DEFAULT_REFRESH_INTERVAL}
\* a wider range of arguments of set_refresh_interval, on both sides of the
\* floor of line 189
FloorArgs == {-5, 0, 10, 59, 60, 61, 120, DEFAULT_REFRESH_INTERVAL}

\* the seven keys of the snapshot dict (lines 111-119)
Fields == {"social_signals", "social_agg", "social_scores", "disaster_data",
           "probe_results", "probe_agg", "infra_scores"}
InfraFields == {"probe_results", "probe_agg", "infra_scores"}

None == <<>>
Some(x) == <<x>>
\* as Max, but the second argument wins
MaxSecond(a, b) == b
\* Python's max of two numbers
Max(a, b) == IF a >= b THEN a ELSE b

\* objects created by the init body (lines 52-53): one lock and one event
\* per execution of the body; 0 = the attribute does not exist yet
ObjIds == 1..Cardinality(Clients)

VARIABLES
  instance,         \* cls._instance is not None
  initialized,      \* cls._instance._initialized
  refresh_interval, \* self._refresh_interval
  data,             \* self._data: None or Some(snapshot)
  lockObj,          \* which lock object self._data_lock names (0 = unset)
  lockHolder,       \* per lock object, the thread holding it
  stopObj,          \* which event object self._stop_event names (0 = unset)
  eventSet,         \* per event object, its flag
  is_fetching,      \* self._is_fetching
  last_refresh,     \* self._last_refresh
  next_refresh,     \* self._next_refresh
  fetch_count,      \* self._fetch_count
  last_error,       \* self._last_error
  now,              \* the clock read by datetime.now / Event.wait
  pc,               \* per thread, the line it is about to execute
  ret,              \* per thread, where _do_fetch returns to
  cyc,              \* per thread, the id of the fetch cycle it is running
  loc,              \* per thread, the local variables of _do_fetch
  err,              \* per thread, the exception being handled
  held,             \* per thread, the lock object it holds (0 = none)
  deadline,         \* per background thread, when its wait times out
  waitEv,           \* per background thread, the event it waits on
  importable,       \* the imports of lines 81-91 succeed in this process
  app,              \* the dashboard's working values (app.py 292-322)
  hist              \* history: cycles started, publishes, who wrote what

store == <<instance, initialized, refresh_interval, data, lockObj, lockHolder,
           stopObj, eventSet, is_fetching, last_refresh, next_refresh,
           fetch_count, last_error>>
locals == <<cyc, loc, err, held, deadline, waitEv, ret>>
env == <<importable, app>>
vars == <<store, now, env, pc, locals, hist>>

NoLocals == [f \in Fields |-> 0]

\* the dashboard has not computed anything
NoApp == [fn |-> "none"]

Unbuilt ==
  /\ instance = FALSE
  /\ initialized = FALSE
  /\ refresh_interval = 0
  /\ data = None
  /\ lockObj = 0
  /\ lockHolder = [o \in ObjIds |-> NoThread]
  /\ stopObj = 0
  /\ eventSet = [o \in ObjIds |-> FALSE]
  /\ is_fetching = FALSE
  /\ last_refresh = None
  /\ next_refresh = None
  /\ fetch_count = 0
  /\ last_error = None
  /\ now = 0
  /\ pc = [t \in Threads |-> IF t \in Clients THEN "idle" ELSE "off"]
  /\ ret = [t \in Threads |-> "off"]
  /\ cyc = [t \in Threads |-> 0]
  /\ loc = [t \in Threads |-> NoLocals]
  /\ err = [t \in Threads |-> None]
  /\ held = [t \in Threads |-> 0]
  /\ deadline = [t \in Threads |-> 0]
  /\ waitEv = [t \in Threads |-> 0]
  /\ hist = [cycles |-> 0, publishes |-> 0, pubAt |-> 0, inits |-> 0,
             spawned |-> 0, attrError |-> FALSE,
             w_last_refresh |-> 0, w_next_refresh |-> 0, w_fetch_count |-> 0]

Init ==
  /\ Unbuilt
  /\ importable \in BOOLEAN
  /\ app = NoApp

\* ------------------------------------------------------------ construction
InCtor(c) == pc[c] \notin {"idle", "ready"}

\* DataStore.__new__ (lines 38-43), whole body under cls._lock
NewBody(c) ==
  /\ pc[c] = "idle"
  /\ IF instance
       THEN UNCHANGED <<instance, initialized>>
       ELSE instance' = TRUE /\ initialized' = FALSE
  /\ pc' = [pc EXCEPT ![c] = "L46"]
  /\ UNCHANGED <<refresh_interval, data, lockObj, lockHolder, stopObj,
                 eventSet, is_fetching, last_refresh, next_refresh,
                 fetch_count, last_error, now, env, locals, hist>>

\* DataStore() called by the thread that starts the application
New(c) ==
  /\ ThreadNo(c) = 1
  /\ NewBody(c)

\* DataStore() called by another thread while the first is in the constructor
NewConcurrent(c) ==
  /\ ThreadNo(c) # 1
  /\ \E d \in Clients \ {c} : InCtor(d)
  /\ NewBody(c)

\* __init__ line 46-47: if self._initialized: return
InitCheck(c) ==
  /\ pc[c] = "L46"
  /\ pc' = [pc EXCEPT ![c] = IF initialized THEN "ready" ELSE "L48"]
  /\ UNCHANGED <<store, now, env, locals, hist>>

\* __init__ line 48: self._initialized = True
InitMark(c) ==
  /\ pc[c] = "L48"
  /\ initialized' = TRUE
  /\ pc' = [pc EXCEPT ![c] = "L50"]
  /\ UNCHANGED <<instance, refresh_interval, data, lockObj, lockHolder,
                 stopObj, eventSet, is_fetching, last_refresh, next_refresh,
                 fetch_count, last_error, now, env, locals, hist>>

\* a dict with the seven keys and no producer result behind any of them
EmptySnapshot == Some(NoLocals)

\* line 51: self._data = None
InitialData == None

\* __init__ lines 50-61: the attributes are (re)created, then _do_fetch()
\* is called synchronously
InitFields(c) ==
  /\ pc[c] = "L50"
  /\ \E s \in CtorArgs : refresh_interval' = s
  /\ data' = InitialData
  /\ lockObj' = hist.inits + 1
  /\ stopObj' = hist.inits + 1
  /\ is_fetching' = FALSE
  /\ last_refresh' = None
  /\ next_refresh' = None
  /\ fetch_count' = 0
  /\ last_error' = None
  /\ hist' = [hist EXCEPT !.inits = @ + 1,
                          !.w_last_refresh = 0, !.w_next_refresh = 0,
                          !.w_fetch_count = 0]
  /\ pc' = [pc EXCEPT ![c] = "L81"]
  /\ ret' = [ret EXCEPT ![c] = "L64"]
  /\ UNCHANGED <<instance, initialized, lockHolder, eventSet, now, env,
                 cyc, loc, err, held, deadline, waitEv>>

\* __init__ lines 64-73: start the background thread, return
InitSpawn(c) ==
  /\ pc[c] = "L64"
  /\ pc' = [pc EXCEPT ![c] = "ready", ![BgOf(c)] = "L147"]
  /\ hist' = [hist EXCEPT !.spawned = @ + 1]
  /\ UNCHANGED <<store, now, env, locals>>

\* ---------------------------------------------------------------- _do_fetch
\* where a thread goes when an exception leaves its top frame: DataStore()
\* raises in a client (it holds no store), a Thread's run() ends
Propagate(t) == IF t \in Clients THEN "idle" ELSE "off"

\* the thread is inside the fetch cycle proper: line 93 done, line 143 not
\* ("blocked" = inside a producer call of lines 99-109 that does not return)
InCycle(t) == pc[t] \in {"L99", "blocked", "L122", "L125", "L140", "L143"}

\* lines 81-91 raise: the lazy imports are outside the try block; a module
\* already in sys.modules cannot fail to import again
ImportRaises(t) ==
  /\ pc[t] = "L81"
  /\ ~importable
  /\ pc' = [pc EXCEPT ![t] = Propagate(t)]
  /\ UNCHANGED <<store, now, env, locals, hist>>

\* as FetchStart, but the lock is taken for the whole cycle
FetchStartLocked(t) ==
  /\ pc[t] = "L81"
  /\ hist.cycles < MaxCycles
  /\ importable
  /\ lockHolder[lockObj] = NoThread
  /\ lockHolder' = [lockHolder EXCEPT ![lockObj] = t]
  /\ is_fetching' = TRUE
  /\ cyc' = [cyc EXCEPT ![t] = hist.cycles + 1]
  /\ hist' = [hist EXCEPT !.cycles = @ + 1]
  /\ pc' = [pc EXCEPT ![t] = "L99"]
  /\ UNCHANGED <<instance, initialized, refresh_interval, data, lockObj,
                 stopObj, eventSet, last_refresh, next_refresh,
                 fetch_count, last_error, now, env, loc, err, held,
                 deadline, waitEv, ret>>

\* lines 81-95: the imports succeed, then self._is_fetching = True
FetchStart(t) ==
  /\ pc[t] = "L81"
  /\ hist.cycles < MaxCycles
  /\ importable
  /\ is_fetching' = TRUE
  /\ cyc' = [cyc EXCEPT ![t] = hist.cycles + 1]
  /\ hist' = [hist EXCEPT !.cycles = @ + 1]
  /\ pc' = [pc EXCEPT ![t] = "L99"]
  /\ UNCHANGED <<instance, initialized, refresh_interval, data, lockObj,
                 lockHolder, stopObj, eventSet, last_refresh, next_refresh,
                 fetch_count, last_error, now, env, loc, err, held,
                 deadline, waitEv, ret>>

\* the results of the producers called on lines 99-109 by cycle k
Produced(k) == [f \in Fields |-> k]

\* lines 99-119: the three producer groups return, new_data is built; all
\* of it works on locals of this call
FetchProduce(t) ==
  /\ pc[t] = "L99"
  /\ loc' = [loc EXCEPT ![t] = Produced(cyc[t])]
  /\ pc' = [pc EXCEPT ![t] = "L122"]
  /\ UNCHANGED <<store, now, env, cyc, err, held, deadline, waitEv,
                 ret, hist>>

\* line 99: fetch_social_signals() does not come back: feedparser.parse(url)
\* on scraper.py line 97 fetches the feed with no timeout, and _do_fetch
\* sets no limit of its own on a cycle
ProducerBlocks(t) ==
  /\ pc[t] = "L99"
  /\ pc' = [pc EXCEPT ![t] = "blocked"]
  /\ UNCHANGED <<store, now, env, locals, hist>>

Producers == {"social", "disaster", "infra"}

\* a producer call of lines 99-109 raises: control goes to line 139
ProducerRaises(t) ==
  /\ pc[t] = "L99"
  /\ \E p \in Producers :
       err' = [err EXCEPT ![t] = Some(p)]
  /\ pc' = [pc EXCEPT ![t] = "L140"]
  /\ UNCHANGED <<store, now, env, cyc, loc, held, deadline, waitEv,
                 ret, hist>>

\* as NewData, but the infra results are kept where concurrent cycles
\* share them, and the most recently started cycle's are used
NewDataShared(t) ==
  [f \in Fields |->
     IF f \in InfraFields
       THEN CHOOSE k \in {loc[u][f] : u \in Threads} :
              \A u \in Threads : loc[u][f] <= k
       ELSE loc[t][f]]

\* lines 111-119: new_data, a fresh dict of this call's locals
NewData(t) == loc[t]

\* as PublishTime, but the background thread records the time its wake-up
\* was scheduled for
PublishTimeScheduled(t) == IF t \in BgThreads THEN deadline[t] ELSE now

\* the value datetime.now(timezone.utc) returns on line 124
PublishTime(t) == now

\* the lock self._data_lock names is free (a with statement can enter)
LockFree == lockHolder[lockObj] = NoThread

\* lines 122-124: with self._data_lock: self._data = new_data;
\* self._last_refresh = datetime.now(timezone.utc)
PubSwap(t) ==
  /\ pc[t] = "L122"
  /\ LockFree
  /\ lockHolder' = [lockHolder EXCEPT ![lockObj] = t]
  /\ held' = [held EXCEPT ![t] = lockObj]
  /\ data' = Some(NewData(t))
  /\ last_refresh' = Some(PublishTime(t))
  /\ hist' = [hist EXCEPT !.publishes = @ + 1, !.pubAt = now,
                          !.w_last_refresh = cyc[t]]
  /\ pc' = [pc EXCEPT ![t] = "L125"]
  /\ UNCHANGED <<instance, initialized, refresh_interval, lockObj, stopObj,
                 eventSet, is_fetching, next_refresh, fetch_count, last_error,
                 now, env, cyc, loc, err, deadline, waitEv, ret>>

\* leaving the with block: the lock object acquired on line 122 is released
Release(t) == [lockHolder EXCEPT ![held[t]] = NoThread]

IncrementLost(n) == Max(n, 1)

\* line 128: self._fetch_count += 1
Incremented(n) == n + 1

\* lines 125-129 and the end of the with block: next_refresh, fetch_count
\* and last_error are written, the lock is released; None + timedelta on
\* line 125 raises TypeError, which leaves the with block for line 139
PubMeta(t) ==
  /\ pc[t] = "L125"
  /\ lockHolder' = Release(t)
  /\ held' = [held EXCEPT ![t] = 0]
  /\ IF last_refresh = None
       THEN /\ err' = [err EXCEPT ![t] = Some("TypeError")]
            /\ pc' = [pc EXCEPT ![t] = "L140"]
            /\ UNCHANGED <<next_refresh, fetch_count, last_error, hist>>
       ELSE /\ next_refresh' = Some(last_refresh[1] + refresh_interval)
            /\ fetch_count' = Incremented(fetch_count)
            /\ last_error' = None
            /\ hist' = [hist EXCEPT !.w_next_refresh = cyc[t],
                                    !.w_fetch_count = cyc[t]]
            /\ pc' = [pc EXCEPT ![t] = "L143"]
            /\ UNCHANGED err
  /\ UNCHANGED <<instance, initialized, refresh_interval, data, lockObj,
                 stopObj, eventSet, is_fetching, last_refresh, now, env,
                 cyc, loc, deadline, waitEv, ret>>

\* as FetchExcept, but the failed cycle also withdraws the snapshot
FetchExceptClears(t) ==
  /\ pc[t] = "L140"
  /\ last_error' = err[t]
  /\ data' = None
  /\ pc' = [pc EXCEPT ![t] = "L143"]
  /\ UNCHANGED <<instance, initialized, refresh_interval, lockObj,
                 lockHolder, stopObj, eventSet, is_fetching, last_refresh,
                 next_refresh, fetch_count, now, env, locals, hist>>

\* lines 139-141: except Exception as e: self._last_error = str(e)
FetchExcept(t) ==
  /\ pc[t] = "L140"
  /\ last_error' = err[t]
  /\ pc' = [pc EXCEPT ![t] = "L143"]
  /\ UNCHANGED <<instance, initialized, refresh_interval, data, lockObj,
                 lockHolder, stopObj, eventSet, is_fetching, last_refresh,
                 next_refresh, fetch_count, now, env, locals, hist>>

\* lines 142-143: finally: self._is_fetching = False; _do_fetch returns
FetchFinally(t) ==
  /\ pc[t] = "L143"
  /\ is_fetching' = FALSE
  /\ pc' = [pc EXCEPT ![t] = ret[t]]
  /\ cyc' = [cyc EXCEPT ![t] = 0]
  /\ loc' = [loc EXCEPT ![t] = NoLocals]
  /\ err' = [err EXCEPT ![t] = None]
  /\ UNCHANGED <<instance, initialized, refresh_interval, data, lockObj,
                 lockHolder, stopObj, eventSet, last_refresh, next_refresh,
                 fetch_count, last_error, now, env, held, deadline,
                 waitEv, ret, hist>>

\* --------------------------------------------------------- _background_loop
\* lines 147-149: while not self._stop_event.is_set(): start the wait with
\* the interval and the event object read at this moment
LoopHead(b) ==
  /\ pc[b] = "L147"
  /\ IF eventSet[stopObj]
       THEN /\ pc' = [pc EXCEPT ![b] = "done"]
            /\ UNCHANGED <<deadline, waitEv>>
       ELSE /\ deadline' = [deadline EXCEPT ![b] = now + refresh_interval]
            /\ waitEv' = [waitEv EXCEPT ![b] = stopObj]
            /\ pc' = [pc EXCEPT ![b] = "L149"]
  /\ UNCHANGED <<store, now, env, cyc, loc, err, held, ret,
                 hist>>

\* Event.wait(timeout) returns: the event was set or the timeout elapsed
WaitOver(b) == eventSet[waitEv[b]] \/ now >= deadline[b]

\* lines 149-152: the wait returns, the stop event is not set, _do_fetch()
WaitWake(b) ==
  /\ pc[b] = "L149"
  /\ WaitOver(b)
  /\ ~eventSet[stopObj]
  /\ pc' = [pc EXCEPT ![b] = "L81"]
  /\ ret' = [ret EXCEPT ![b] = "L147"]
  /\ UNCHANGED <<store, now, env, cyc, loc, err, held, deadline,
                 waitEv, hist>>

\* lines 149-151, 154: the wait returns, the stop event is set, break
WaitStop(b) ==
  /\ pc[b] = "L149"
  /\ WaitOver(b)
  /\ eventSet[stopObj]
  /\ pc' = [pc EXCEPT ![b] = "done"]
  /\ UNCHANGED <<store, now, env, locals, hist>>

\* the clock advances
Tick ==
  /\ now < MaxTicks * TickSec
  /\ now' = now + TickSec
  /\ UNCHANGED <<store, env, pc, locals, hist>>

\* ------------------------------------------------------- client operations
\* an attribute read on a store whose init body has not run yet raises
\* AttributeError in the caller
AttributeError(c) ==
  /\ pc[c] = "ready"
  /\ lockObj = 0
  /\ hist' = [hist EXCEPT !.attrError = TRUE]
  /\ UNCHANGED <<store, now, env, pc, locals>>

\* a reader enters with self._data_lock and moves to the line inside it
ReaderEnter(c, line) ==
  /\ pc[c] = "ready"
  /\ lockObj # 0
  /\ lockHolder' = [lockHolder EXCEPT ![lockObj] = c]
  /\ held' = [held EXCEPT ![c] = lockObj]
  /\ pc' = [pc EXCEPT ![c] = line]
  /\ UNCHANGED <<instance, initialized, refresh_interval, data, lockObj,
                 stopObj, eventSet, is_fetching, last_refresh, next_refresh,
                 fetch_count, last_error, now, env, cyc, loc, err,
                 deadline, waitEv, ret, hist>>

\* a reader returns from inside the with block: the lock is released
ReaderLeave(c, line) ==
  /\ pc[c] = line
  /\ lockHolder' = Release(c)
  /\ held' = [held EXCEPT ![c] = 0]
  /\ pc' = [pc EXCEPT ![c] = "ready"]
  /\ UNCHANGED <<instance, initialized, refresh_interval, data, lockObj,
                 stopObj, eventSet, is_fetching, last_refresh, next_refresh,
                 fetch_count, last_error, now, env, cyc, loc, err,
                 deadline, waitEv, ret>>

\* get_data may enter its with block (line 164)
DataGuard == LockFree

\* line 164: with self._data_lock
GetData(c) ==
  /\ lockObj # 0 => DataGuard
  /\ ReaderEnter(c, "L165")

\* the value line 165 returns
DataResult == data

\* line 165: return self._data
GetDataReturn(c) ==
  /\ ReaderLeave(c, "L165")
  /\ UNCHANGED hist

\* as StatusGuard, but get_status reads without waiting for the lock
StatusGuardNone == TRUE

\* get_status may enter its with block (line 177)
StatusGuard == LockFree

\* line 177: with self._data_lock
GetStatus(c) ==
  /\ lockObj # 0 => StatusGuard
  /\ ReaderEnter(c, "L178")

\* the dict lines 178-185 return
StatusResult ==
  [last_refresh |-> last_refresh, next_refresh |-> next_refresh,
   is_fetching |-> is_fetching, fetch_count |-> fetch_count,
   refresh_interval |-> refresh_interval, last_error |-> last_error]

\* lines 178-185: return {...}
GetStatusReturn(c) ==
  /\ ReaderLeave(c, "L178")
  /\ UNCHANGED hist

\* as SetRefreshIntervalTo, but the published next_refresh is moved to the
\* new interval at once
SetRefreshIntervalRetro(c, seconds) ==
  /\ pc[c] = "ready"
  /\ refresh_interval' = Max(MIN_REFRESH_INTERVAL, seconds)
  /\ next_refresh' = IF last_refresh = None
                       THEN next_refresh
                       ELSE Some(last_refresh[1] + refresh_interval')
  /\ UNCHANGED <<instance, initialized, data, lockObj, lockHolder, stopObj,
                 eventSet, is_fetching, last_refresh,
                 fetch_count, last_error, now, env, pc, locals,
                 hist>>

\* line 189: self._refresh_interval = max(60, seconds)
SetRefreshIntervalTo(c, seconds) ==
  /\ pc[c] = "ready"
  /\ refresh_interval' = Max(MIN_REFRESH_INTERVAL, seconds)
  /\ UNCHANGED <<instance, initialized, data, lockObj, lockHolder, stopObj,
                 eventSet, is_fetching, last_refresh, next_refresh,
                 fetch_count, last_error, now, env, pc, locals,
                 hist>>

\* set_refresh_interval(seconds), lines 187-190
SetRefreshInterval(c) ==
  \E seconds \in IntervalArgs : SetRefreshIntervalTo(c, seconds)

\* line 197: the test force_refresh makes before starting a thread
ForceGuard == ~is_fetching

\* lines 197-199: a fetch is in progress, force_refresh returns
ForceRefreshSkip(c) ==
  /\ pc[c] = "ready"
  /\ lockObj # 0
  /\ ~ForceGuard
  /\ UNCHANGED vars

\* lines 197, 200-205: a new thread is started on _do_fetch
ForceRefreshStart(c) ==
  /\ pc[c] = "ready"
  /\ lockObj # 0
  /\ ForceGuard
  /\ \E f \in ForceThreads :
       /\ pc[f] = "off"
       /\ \A g \in ForceThreads : pc[g] = "off" => ThreadNo(f) <= ThreadNo(g)
       /\ pc' = [pc EXCEPT ![f] = "L81"]
       /\ ret' = [ret EXCEPT ![f] = "off"]
  /\ UNCHANGED <<store, now, env, cyc, loc, err, held, deadline,
                 waitEv, hist>>

\* as Stop, but the call flips the event
StopToggles(c) ==
  /\ pc[c] = "ready"
  /\ stopObj # 0
  /\ eventSet' = [eventSet EXCEPT ![stopObj] = ~@]
  /\ UNCHANGED <<instance, initialized, refresh_interval, data, lockObj,
                 lockHolder, stopObj, is_fetching, last_refresh, next_refresh,
                 fetch_count, last_error, now, env, pc, locals,
                 hist>>

\* line 209: self._stop_event.set()
Stop(c) ==
  /\ pc[c] = "ready"
  /\ stopObj # 0
  /\ eventSet' = [eventSet EXCEPT ![stopObj] = TRUE]
  /\ UNCHANGED <<instance, initialized, refresh_interval, data, lockObj,
                 lockHolder, stopObj, is_fetching, last_refresh, next_refresh,
                 fetch_count, last_error, now, env, pc, locals,
                 hist>>

\* ----------------------------------------------------------- specifications
Next ==
  \/ \E c \in Clients : New(c)
  \/ \E c \in Clients : InitCheck(c)
  \/ \E c \in Clients : InitMark(c)
  \/ \E c \in Clients : InitFields(c)
  \/ \E c \in Clients : InitSpawn(c)
  \/ \E t \in Threads : ImportRaises(t)
  \/ \E t \in Threads : FetchStart(t)
  \/ \E t \in Threads : FetchProduce(t)
  \/ \E t \in Threads : ProducerRaises(t)
  \/ \E t \in Threads : PubSwap(t)
  \/ \E t \in Threads : PubMeta(t)
  \/ \E t \in Threads : FetchExcept(t)
  \/ \E t \in Threads : FetchFinally(t)
  \/ \E b \in BgThreads : LoopHead(b)
  \/ \E b \in BgThreads : WaitWake(b)
  \/ \E b \in BgThreads : WaitStop(b)
  \/ Tick
  \/ \E c \in Clients : GetData(c)
  \/ \E c \in Clients : GetDataReturn(c)
  \/ \E c \in Clients : GetStatus(c)
  \/ \E c \in Clients : GetStatusReturn(c)
  \/ \E c \in Clients : SetRefreshInterval(c)
  \/ \E c \in Clients : ForceRefreshSkip(c)
  \/ \E c \in Clients : ForceRefreshStart(c)
  \/ \E c \in Clients : Stop(c)

\* the store is constructed by one thread before any other thread asks for it
Spec == Init /\ [][Next]_vars

\* the start of the application only: construction, fetch cycles, readers
NextCtor ==
  \/ \E c \in Clients : New(c)
  \/ \E c \in Clients : NewConcurrent(c)
  \/ \E c \in Clients : InitCheck(c)
  \/ \E c \in Clients : InitMark(c)
  \/ \E c \in Clients : InitFields(c)
  \/ \E c \in Clients : InitSpawn(c)
  \/ \E t \in Threads : ImportRaises(t)
  \/ \E t \in Threads : FetchStart(t)
  \/ \E t \in Threads : FetchProduce(t)
  \/ \E t \in Threads : ProducerRaises(t)
  \/ \E t \in Threads : PubSwap(t)
  \/ \E t \in Threads : PubMeta(t)
  \/ \E t \in Threads : FetchExcept(t)
  \/ \E t \in Threads : FetchFinally(t)
  \/ \E b \in BgThreads : LoopHead(b)
  \/ \E b \in BgThreads : WaitWake(b)
  \/ Tick
  \/ \E c \in Clients : AttributeError(c)
  \/ \E c \in Clients : GetData(c)
  \/ \E c \in Clients : GetDataReturn(c)
  \/ \E c \in Clients : GetStatus(c)
  \/ \E c \in Clients : GetStatusReturn(c)

\* several threads may call DataStore() at the same time
SpecCtor == Init /\ [][NextCtor]_vars

\* the scheduler and its controls: construction by one thread, the cycles
\* of the background loop, stop, set_refresh_interval and get_status
NextLoop ==
  \/ \E c \in Clients : New(c)
  \/ \E c \in Clients : InitCheck(c)
  \/ \E c \in Clients : InitMark(c)
  \/ \E c \in Clients : InitFields(c)
  \/ \E c \in Clients : InitSpawn(c)
  \/ \E t \in Threads : ImportRaises(t)
  \/ \E t \in Threads : FetchStart(t)
  \/ \E t \in Threads : FetchProduce(t)
  \/ \E t \in Threads : ProducerRaises(t)
  \/ \E t \in Threads : PubSwap(t)
  \/ \E t \in Threads : PubMeta(t)
  \/ \E t \in Threads : FetchExcept(t)
  \/ \E t \in Threads : FetchFinally(t)
  \/ \E b \in BgThreads : LoopHead(b)
  \/ \E b \in BgThreads : WaitWake(b)
  \/ \E b \in BgThreads : WaitStop(b)
  \/ Tick
  \/ \E c \in Clients : GetStatus(c)
  \/ \E c \in Clients : GetStatusReturn(c)
  \/ \E c \in Clients, seconds \in FloorArgs : SetRefreshIntervalTo(c, seconds)
  \/ \E c \in Clients : Stop(c)

SpecLoop == Init /\ [][NextLoop]_vars

\* the background loop and stop() alone
NextLive ==
  \/ \E c \in Clients : New(c)
  \/ \E c \in Clients : InitCheck(c)
  \/ \E c \in Clients : InitMark(c)
  \/ \E c \in Clients : InitFields(c)
  \/ \E c \in Clients : InitSpawn(c)
  \/ \E t \in Threads : ImportRaises(t)
  \/ \E t \in Threads : FetchStart(t)
  \/ \E t \in Threads : FetchProduce(t)
  \/ \E t \in Threads : ProducerRaises(t)
  \/ \E t \in Threads : ProducerBlocks(t)
  \/ \E t \in Threads : PubSwap(t)
  \/ \E t \in Threads : PubMeta(t)
  \/ \E t \in Threads : FetchExcept(t)
  \/ \E t \in Threads : FetchFinally(t)
  \/ \E b \in BgThreads : LoopHead(b)
  \/ \E b \in BgThreads : WaitWake(b)
  \/ \E b \in BgThreads : WaitStop(b)
  \/ Tick
  \/ \E c \in Clients : Stop(c)

\* a step of thread t that needs nothing but the thread being scheduled:
\* every statement of the constructor, of _do_fetch and of the loop, the
\* producer calls of lines 99-109 apart
Scheduled(t) ==
  \/ InitCheck(t) \/ InitMark(t) \/ InitFields(t) \/ InitSpawn(t)
  \/ ImportRaises(t) \/ FetchStart(t)
  \/ PubSwap(t) \/ PubMeta(t) \/ FetchExcept(t) \/ FetchFinally(t)
  \/ LoopHead(t) \/ WaitWake(t) \/ WaitStop(t)

\* the producer calls of lines 99-109 end in one of the three ways
ProducersReturn(t) ==
  FetchProduce(t) \/ ProducerRaises(t) \/ ProducerBlocks(t)

\* every started thread keeps being scheduled, and a producer call either
\* comes back or blocks for good
SpecLive ==
  /\ Init /\ [][NextLive]_vars
  /\ \A t \in Threads : WF_vars(Scheduled(t)) /\ WF_vars(ProducersReturn(t))

\* ------------------------------------------------------------------- claims
Running == {t \in Threads : InCycle(t)}
Reading(line) == {c \in Clients : pc[c] = line}
\* thread t takes this step
Steps(t) == pc'[t] # pc[t]

\* C1: at most one thread is inside a fetch cycle at any time.
C1_SingleFlight == Cardinality(Running) <= 1

\* the snapshot d was produced by one fetch cycle
OneCycle(d) == \A f, g \in Fields : d[f] = d[g]

\* C2: every snapshot get_data returns has all seven fields produced by one
\* and the same fetch cycle, whatever cycles are publishing around the reader.
C2_Atomicity ==
  \A c \in Reading("L165") : DataResult # None => OneCycle(DataResult[1])

\* a reader is returning the second snapshot while another cycle, already
\* done with its producers, waits to publish
C2_Witness ==
  /\ Reading("L165") # {}
  /\ DataResult # None
  /\ hist.publishes >= 2
  /\ \E t \in Threads : pc[t] = "L122"

\* C3: a cycle in which a producer raised publishes nothing: from the raise
\* to the end of the cycle none of its steps changes the snapshot,
\* fetch_count, last_refresh or next_refresh, and its except clause leaves
\* the error in last_error.
C3_FailedCyclePublishesNothing ==
  [][\A t \in Threads :
       (Steps(t) /\ (err[t] # None \/ err'[t] # None)) =>
         /\ UNCHANGED <<data, fetch_count, last_refresh, next_refresh>>
         /\ pc[t] = "L140" => (last_error' = err[t] /\ last_error' # None)]_vars

\* a cycle failed after a snapshot had been published: the snapshot is
\* still current and the error is recorded
C3_Witness ==
  \E t \in Threads :
    /\ pc[t] = "L143"
    /\ err[t] # None
    /\ data # None
    /\ fetch_count >= 1
    /\ last_error = err[t]

\* C4: every thread whose DataStore() call has returned holds a store whose
\* attributes exist and whose first fetch cycle has ended, with a snapshot
\* or with last_error set.
C4_FirstFetchDone ==
  \A c \in Clients :
    pc[c] = "ready" =>
      /\ lockObj # 0
      /\ data # None \/ last_error # None

C6_FlagCoversCycle == Running # {} => is_fetching

\* C7: a force_refresh call made while a fetch cycle is in flight starts no
\* fetch thread and changes no store state, so that the calls overlapping
\* one cycle add no publish to that cycle's own.
C7_ForceIsNoOpDuringCycle ==
  [][\A f \in ForceThreads :
       (Running # {} /\ pc[f] = "off") => pc'[f] = "off"]_vars

LockedLines == {"L125", "L165", "L178"}

\* C9: get_data starts no fetch cycle, and the lock it needs is held only
\* by a thread between lines 122 and 129 or inside the reference copy of
\* get_data/get_status, never by a thread calling a producer: whenever no
\* thread is on those lines get_data can enter at once.
C9_ReadNeverWaitsForFetch ==
  /\ [](lockObj # 0 =>
          /\ \A t \in Threads : pc[t] \notin LockedLines => lockHolder[lockObj] # t
          /\ ~DataGuard => \E t \in Threads : pc[t] \in LockedLines)
  /\ [][\A c \in Clients :
          (Steps(c) /\ "L165" \in {pc[c], pc'[c]}) =>
            /\ UNCHANGED <<is_fetching, data, fetch_count>>
            /\ hist'.cycles = hist.cycles
            /\ \A t \in Threads \ {c} : pc'[t] = pc[t]]_vars

\* get_data is returning the previous snapshot while a cycle is calling
\* its producers
C9_Witness ==
  /\ Reading("L165") # {}
  /\ DataResult # None
  /\ \E t \in Threads : pc[t] = "L99" /\ cyc[t] > DataResult[1]["social_signals"]

Stopped == stopObj # 0 /\ eventSet[stopObj]

\* C11: once stop() has been called no fetch cycle begins: no step taken
\* with the stop event set sends a thread into _do_fetch, neither the
\* background loop's wake-up nor a force_refresh call; a thread already in
\* _do_fetch may go on.  Stated for a process in which the producer
\* modules load, where every thread sent into _do_fetch begins a cycle.
C11_NoCycleAfterStop ==
  [][(Stopped /\ importable) =>
       \A t \in Threads : pc'[t] = "L81" => pc[t] = "L81"]_vars

\* the background threads have left _background_loop (or never entered it)
LoopExited == \A b \in BgThreads : pc[b] \in {"off", "done"}

\* C12: stop() moves no thread and changes nothing a fetch cycle reads or
\* writes, so a cycle in flight goes on as before; and once stop() has been
\* called the background loop eventually exits, wherever it was.
C12_CooperativeShutdown ==
  /\ [][eventSet' # eventSet =>
          UNCHANGED <<pc, cyc, loc, err, data, is_fetching, fetch_count,
                      last_refresh, next_refresh, last_error>>]_vars
  /\ (Stopped ~> LoopExited)

\* C13: stop() can be called again once the store is stopped, also after
\* the background loop has exited: the call raises nothing, leaves every
\* variable of the store and every thread as it was, and starts no cycle.
C13_StopIdempotent ==
  /\ [](Stopped => \A c \in Clients : pc[c] = "ready" => ENABLED Stop(c))
  /\ [][\A c \in Clients : (Stopped /\ Stop(c)) => UNCHANGED vars]_vars

\* the store is stopped, the background loop has exited, and a client is
\* in a position to call stop() once more
C13_Witness ==
  /\ Stopped
  /\ \E b \in BgThreads : pc[b] = "done"
  /\ \E c \in Clients : ENABLED Stop(c)

\* the floor of line 189, written out
Floored(s) == IF s < 60 THEN 60 ELSE s

\* C14: after set_refresh_interval(s) the interval is max(60, s), so at
\* least 60; nothing but the constructor and set_refresh_interval changes
\* it, so this is the value get_status reports and the value the next wait
\* of the background loop takes as its timeout.
C14_IntervalFloor ==
  /\ [][\A c \in Clients, s \in FloorArgs :
          SetRefreshIntervalTo(c, s) =>
            /\ refresh_interval' = Floored(s)
            /\ refresh_interval' >= 60
            /\ StatusResult'.refresh_interval = Floored(s)]_vars
  /\ [][refresh_interval' # refresh_interval =>
          \/ \E c \in Clients : pc[c] = "L50"
          \/ \E c \in Clients, s \in FloorArgs : SetRefreshIntervalTo(c, s)]_vars
  /\ [][\A b \in BgThreads :
          (pc[b] = "L147" /\ pc'[b] = "L149") =>
            deadline'[b] = now + refresh_interval]_vars

\* after set_refresh_interval with an argument below the floor, get_status
\* is reporting 60 and the background loop is in a wait of 60 seconds
C14_Witness ==
  /\ Reading("L178") # {}
  /\ StatusResult.refresh_interval = 60
  /\ \E b \in BgThreads : pc[b] = "L149" /\ deadline[b] = now + 60

\* C15: set_refresh_interval touches neither a wait in progress nor the
\* published next_refresh: the wait keeps the deadline it started with and
\* ends exactly when that deadline has passed or the event is set; a wait
\* started later takes the interval of that moment, and so does the
\* next_refresh of a later publish.
C15_NotRetroactive ==
  /\ [][\A c \in Clients, s \in FloorArgs :
          SetRefreshIntervalTo(c, s) =>
            UNCHANGED <<pc, deadline, waitEv, next_refresh, last_refresh>>]_vars
  /\ [][\A b \in BgThreads :
          pc[b] = "L149" =>
            /\ pc'[b] = "L149" => deadline'[b] = deadline[b]
            /\ pc'[b] # "L149" =>
                 (now >= deadline[b] \/ eventSet[waitEv[b]])]_vars
  /\ [](\A b \in BgThreads :
          (pc[b] = "L149" /\ now >= deadline[b]) =>
            ENABLED (WaitWake(b) \/ WaitStop(b)))
  /\ [][\A b \in BgThreads :
          (pc[b] = "L147" /\ pc'[b] = "L149") =>
            deadline'[b] = now + refresh_interval']_vars
  /\ [][\A t \in Threads :
          (pc[t] = "L125" /\ pc'[t] = "L143") =>
            next_refresh' = Some(last_refresh'[1] + refresh_interval')]_vars

\* the interval was changed while the background loop was waiting: the
\* wait still has the deadline of the old interval and next_refresh is
\* still the one published with the old interval
C15_Witness ==
  /\ next_refresh # None
  /\ next_refresh[1] # last_refresh[1] + refresh_interval
  /\ \E b \in BgThreads :
       /\ pc[b] = "L149"
       /\ \A k \in 0..MaxTicks : deadline[b] # k * TickSec + refresh_interval

\* the cycle thread t is running has failed in the infra producer group
\* (lines 107-109)
InfraFailed(t) == InCycle(t) /\ err[t] = Some("infra")

\* C16: a cycle whose infra producer raised still publishes: when it
\* reaches its end the store holds a snapshot with that cycle's social and
\* disaster results, and last_error is set.
C16_InfraFailureIsolated ==
  \A t \in Threads :
    (InfraFailed(t) /\ pc[t] = "L143") =>
      /\ data # None
      /\ data[1]["social_signals"] = cyc[t]
      /\ data[1]["disaster_data"] = cyc[t]
      /\ last_error # None

\* thread t's call of _do_fetch fails in this step: the imports of lines
\* 81-91 raise, or an exception of lines 99-129 reaches the except clause
FailsNow(t) ==
  \/ pc[t] = "L81" /\ pc'[t] \notin {"L81", "L99"}
  \/ pc[t] = "L140" /\ pc'[t] # "L140"

\* C17: whatever step of a fetch attempt fails before the publish, the
\* error is left in last_error, the snapshot stays as it was, and the
\* thread goes on to the end of _do_fetch and back to its caller (the
\* background loop, or the constructor about to start it) instead of ending.
C17_CycleFailureRecorded ==
  [][\A t \in Threads :
       FailsNow(t) =>
         /\ last_error' # None
         /\ data' = data
         /\ pc'[t] = "L143"
         /\ ret'[t] \in {"L64", "L147", "off"}]_vars

\* C18: when a cycle ends and leaves no cycle running, last_error is that
\* cycle's outcome: None if it published, its error if it failed.
C18_LastErrorIsLatestOutcome ==
  [][\A t \in Threads :
       (pc[t] = "L143" /\ Steps(t) /\ Running = {t}) =>
         last_error' = err[t]]_vars

\* C19: every fetch cycle that starts ends, and is_fetching goes back to
\* false, also when a producer call does not come back by itself.
C19_CycleAlwaysEnds ==
  /\ \A t \in Threads : InCycle(t) ~> ~InCycle(t)
  /\ is_fetching ~> ~is_fetching

\* C20: however many threads call DataStore() at once, the init body
\* (lines 48-73) runs once, with one initial fetch, and one background
\* thread is started.
C20_OneStoreOneLoop ==
  /\ hist.inits <= 1
  /\ hist.spawned <= 1
  /\ Cardinality({b \in BgThreads : pc[b] # "off"}) <= 1


\* ===================================================== the dashboard (app.py)
\* ------------------------------------------------- Python float arithmetic
\* A non-negative float is held exactly, as the natural number value * 2^60
\* written in base 2^15, least significant limb first, without a leading zero
\* limb (0.0 is <<>>).  Every operation computes the exact result and rounds it
\* to 53 significant bits, ties to even, as IEEE-754 binary64 does.  Values
\* stay within [2^-6, 2^53) or are 0, so exponent limits never matter.
LimbBits == 15
Base == 32768
FracLimbs == 4
Mantissa == 53

RECURSIVE Strip(_)
Strip(a) ==
  IF a = <<>> THEN a
  ELSE IF a[Len(a)] = 0 THEN Strip(SubSeq(a, 1, Len(a) - 1)) ELSE a

Limb(a, i) == IF i <= Len(a) THEN a[i] ELSE 0

Zeros(n) == [i \in 1..n |-> 0]

ShiftUp(a, n) == IF a = <<>> THEN a ELSE Zeros(n) \o a

RECURSIVE AddFrom(_, _, _, _)
AddFrom(a, b, i, c) ==
  IF i > Len(a) /\ i > Len(b) THEN (IF c = 0 THEN <<>> ELSE <<c>>)
  ELSE LET t == Limb(a, i) + Limb(b, i) + c
       IN <<t % Base>> \o AddFrom(a, b, i + 1, t \div Base)

BigAdd(a, b) == AddFrom(a, b, 1, 0)

\* a - b for a >= b
RECURSIVE SubFrom(_, _, _, _)
SubFrom(a, b, i, borrow) ==
  IF i > Len(a) THEN <<>>
  ELSE LET t == a[i] - Limb(b, i) - borrow
       IN <<(t + Base) % Base>>
            \o SubFrom(a, b, i + 1, IF t < 0 THEN 1 ELSE 0)

BigSub(a, b) == Strip(SubFrom(a, b, 1, 0))

\* a * m for a single limb m
RECURSIVE ScaleFrom(_, _, _, _)
ScaleFrom(a, m, i, c) ==
  IF i > Len(a) THEN (IF c = 0 THEN <<>> ELSE <<c>>)
  ELSE LET t == a[i] * m + c
       IN <<t % Base>> \o ScaleFrom(a, m, i + 1, t \div Base)

Scale(a, m) == IF m = 0 THEN <<>> ELSE ScaleFrom(a, m, 1, 0)

RECURSIVE MulFrom(_, _, _)
MulFrom(a, b, j) ==
  IF j > Len(b) THEN <<>>
  ELSE BigAdd(ShiftUp(Scale(a, b[j]), j - 1), MulFrom(a, b, j + 1))

BigMul(a, b) == MulFrom(a, b, 1)

\* quotient and remainder of a by a small natural m
RECURSIVE DivFrom(_, _, _, _)
DivFrom(a, m, i, rem) ==
  IF i = 0 THEN [q |-> <<>>, r |-> rem]
  ELSE LET cur == rem * Base + a[i]
           rest == DivFrom(a, m, i - 1, cur % m)
       IN [q |-> rest.q \o <<cur \div m>>, r |-> rest.r]

BigDiv(a, m) ==
  LET d == DivFrom(a, m, Len(a), 0) IN [q |-> Strip(d.q), r |-> d.r]

RECURSIVE LessFrom(_, _, _)
LessFrom(a, b, i) ==
  IF i = 0 THEN FALSE
  ELSE IF a[i] # b[i] THEN a[i] < b[i] ELSE LessFrom(a, b, i - 1)

BigLess(a, b) ==
  IF Len(a) # Len(b) THEN Len(a) < Len(b) ELSE LessFrom(a, b, Len(a))

RECURSIVE Width(_)
Width(n) == IF n = 0 THEN 0 ELSE 1 + Width(n \div 2)

BitLen(a) ==
  IF a = <<>> THEN 0 ELSE LimbBits * (Len(a) - 1) + Width(a[Len(a)])

Pow2(d) == Zeros(d \div LimbBits) \o <<2 ^ (d % LimbBits)>>

\* a mod 2^d
LowBits(a, d) ==
  LET n == d \div LimbBits
      k == d % LimbBits
      m == IF Len(a) < n + 1 THEN Len(a) ELSE n + 1
  IN Strip([i \in 1..m |-> IF i <= n THEN a[i] ELSE a[i] % (2 ^ k)])

Bit(a, d) == (Limb(a, d \div LimbBits + 1) \div (2 ^ (d % LimbBits))) % 2

\* round to nearest, ties to even; inexact says that x was itself truncated
RoundBits(x, inexact) ==
  LET d == BitLen(x) - Mantissa
  IN IF d <= 0 THEN x
     ELSE LET r == LowBits(x, d)
              half == Pow2(d - 1)
              up == \/ BigLess(half, r)
                    \/ r = half /\ (inexact \/ Bit(x, d) = 1)
              floor == BigSub(x, r)
          IN IF up THEN BigAdd(floor, Pow2(d)) ELSE floor

Small(n) == Strip(<<n % Base, n \div Base>>)

\* the float a decimal literal n/den denotes, and int -> float
Float(n, den) ==
  LET d == BigDiv(ShiftUp(Small(n), FracLimbs), den)
  IN RoundBits(d.q, d.r # 0)

FAdd(a, b) == RoundBits(BigAdd(a, b), FALSE)

\* a - b for a >= b
FSub(a, b) == RoundBits(BigSub(a, b), FALSE)

FMul(a, b) ==
  LET p == RoundBits(BigMul(a, b), FALSE)
  IN IF Len(p) <= FracLimbs THEN <<>> ELSE SubSeq(p, FracLimbs + 1, Len(p))

FLess(a, b) == BigLess(a, b)

\* round(x, n) for m = 10^n: the multiple of 1/m nearest to x, ties to the
\* even multiple; the result is the number of 1/m units
RoundTo(x, m) ==
  LET t == Scale(x, m)
      whole == Limb(t, FracLimbs + 1) + Base * Limb(t, FracLimbs + 2)
      frac == LowBits(t, LimbBits * FracLimbs)
      half == Pow2(LimbBits * FracLimbs - 1)
      up == BigLess(half, frac) \/ (frac = half /\ whole % 2 = 1)
  IN IF up THEN whole + 1 ELSE whole

\* round(x, 1), in tenths
Round1(x) == RoundTo(x, 10)

\* round(x, 2), in hundredths
Round2(x) == RoundTo(x, 100)

\* ------------------------------------------------ compute_kecamatan_status
\* Scores are held in tenths: producers return round(x, 1), so a score of
\* k tenths is the float Float(k, 10).  A dict is a function whose DOMAIN is
\* its key set.
KECAMATAN_DB == {"Kedaton", "Natar"}

Risks == {"LOW", "MEDIUM", "HIGH"}

Get(d, key, default) == IF key \in DOMAIN d THEN d[key] ELSE default

\* app.py 169: 0 if HIGH else 50 if MEDIUM else 100
TermHalved(disaster_risk) ==
  IF disaster_risk = "HIGH" THEN 0 ELSE 50

Term(disaster_risk) ==
  IF disaster_risk = "HIGH" THEN 0
  ELSE IF disaster_risk = "MEDIUM" THEN 50 ELSE 100

\* the float literals of app.py 168-175
Lit0_4 == Float(4, 10)
Lit0_2 == Float(2, 10)
Lit30 == Float(30, 1)
Lit40 == Float(40, 1)
Lit50 == Float(50, 1)
Lit60 == Float(60, 1)

CombinedInverted(social_score, infra_score, disaster_risk) ==
  FAdd(FAdd(FMul(Float(social_score, 10), Lit0_4),
            FMul(Float(1000 - infra_score, 10), Lit0_4)),
       FMul(Float(Term(disaster_risk), 1), Lit0_2))

\* app.py 168-170
Combined(social_score, infra_score, disaster_risk) ==
  FAdd(FAdd(FMul(Float(social_score, 10), Lit0_4),
            FMul(Float(infra_score, 10), Lit0_4)),
       FMul(Float(Term(disaster_risk), 1), Lit0_2))

StatusRuleByCombined(social_score, infra_score, has_disaster, combined) ==
  LET social == Float(social_score, 10)
      infra == Float(infra_score, 10)
  IN IF FLess(combined, Lit30) THEN "CRITICAL"
     ELSE IF \/ FLess(combined, Lit60)
             \/ FLess(social, Lit60)
             \/ FLess(infra, Lit60)
          THEN "WARNING"
          ELSE "NORMAL"

\* app.py 172-180
StatusRule(social_score, infra_score, has_disaster, combined) ==
  LET social == Float(social_score, 10)
      infra == Float(infra_score, 10)
  IN IF \/ FLess(combined, Lit30)
        \/ /\ FLess(social, Lit40)
           /\ (has_disaster \/ FLess(infra, Lit50))
     THEN "CRITICAL"
     ELSE IF \/ FLess(combined, Lit60)
             \/ FLess(social, Lit60)
             \/ FLess(infra, Lit60)
          THEN "WARNING"
          ELSE "NORMAL"

\* app.py 158-192 (color and disaster_causes are display fields, left out)
compute_kecamatan_status(d) ==
  LET disaster_risk_map == d.disaster_data.risk_map
  IN [kec \in KECAMATAN_DB |->
        LET social_score == Get(d.social_scores, kec, 1000)
            infra_score == Get(d.infra_scores, kec, 1000)
            has_disaster == kec \in DOMAIN disaster_risk_map
            disaster_risk == Get(disaster_risk_map, kec, [risk |-> "NONE"]).risk
            combined == Combined(social_score, infra_score, disaster_risk)
        IN [status |-> StatusRule(social_score, infra_score, has_disaster,
                                  combined),
            combined_score |-> Round1(combined),
            social_score |-> social_score,
            infra_score |-> infra_score,
            disaster_risk |-> disaster_risk]]

\* scores (tenths) and risk entries the producers can hand over
ScoreInputs == {0, 14, 200, 350, 399, 400, 450, 499, 500, 599, 600, 736, 800,
                1000}

RiskEntries == {[risk |-> r] : r \in Risks}

Dicts(keys, values) == UNION {[ks -> values] : ks \in SUBSET keys}

\* load_all_data's result, for one region that each producer reports or not
RegionData ==
  {[social_scores |-> s, infra_scores |-> i,
    disaster_data |-> [risk_map |-> r]] :
     s \in Dicts({"Kedaton"}, ScoreInputs),
     i \in Dicts({"Kedaton"}, ScoreInputs),
     r \in Dicts({"Kedaton"}, RiskEntries)}

StatusInputs == {[fn |-> "status", data |-> d, statuses |-> None] :
                   d \in RegionData}

\* app.py 321-322
ComputeKecamatanStatus ==
  /\ app.fn = "status"
  /\ app.statuses = None
  /\ app' = [app EXCEPT !.statuses = Some(compute_kecamatan_status(app.data))]
  /\ UNCHANGED <<store, now, importable, pc, locals, hist>>

\* ---------------------------------------------------- get_social_score
MaxComplaints == 7

Severities == {"critical", "warning", "normal"}

\* avg_sentiment = round(mean, 2), in hundredths; calculate_sentiment keeps
\* every sentiment within [-1.0, 0.0]
SentimentInputs == {-100, -85, -38, -30, -1, 0}

Abs(x) == IF x < 0 THEN 0 - x ELSE x

CountScoreRising(count) == 100 + count * 15

\* social_signal.py 122
CountScore(count) == Max(0, 100 - count * 15)

\* social_signal.py 128-129, in hundredths
SeverityMult(severity) ==
  IF severity = "critical" THEN 50
  ELSE IF severity = "warning" THEN 75 ELSE 100

\* social_signal.py 117-132 for one region; the result is in tenths
SocialScore(d) ==
  LET count_score == Float(CountScore(d.complaint_count), 1)
      sentiment_penalty == FMul(Float(Abs(d.avg_sentiment), 100), Float(30, 1))
      mult == Float(SeverityMult(d.max_severity), 100)
  IN IF FLess(count_score, sentiment_penalty) THEN 0
     ELSE Round1(FMul(FSub(count_score, sentiment_penalty), mult))

get_social_score(kecamatan_aggregation) ==
  [kec \in DOMAIN kecamatan_aggregation |->
     SocialScore(kecamatan_aggregation[kec])]

SocialInputs ==
  {[fn |-> "social",
    social_agg |-> [kec \in {"Kedaton"} |->
                      [complaint_count |-> n, avg_sentiment |-> a,
                       max_severity |-> v]],
    social_scores |-> None] :
     n \in 1..MaxComplaints, a \in SentimentInputs, v \in Severities}

\* app.py 127-128
GetSocialScore ==
  /\ app.fn = "social"
  /\ app.social_scores = None
  /\ app' = [app EXCEPT !.social_scores = Some(get_social_score(app.social_agg))]
  /\ UNCHANGED <<store, now, importable, pc, locals, hist>>

\* ------------------------------- aggregate_probe_by_kecamatan, get_infra_score
MaxAnchors == 2

\* what _parse_packet_loss and _parse_latency read from the ping output:
\* loss in tenths of a percent, latency in tenths of a millisecond or None
LossInputs == {0, 250, 1000}
LatencyInputs == {None, Some(254), Some(2500), Some(15000)}

\* the value -1 (no latency), in tenths
NoLatency == -10

\* infra_probing.py 73-92
PingHost(loss, latency) ==
  [latency_ms |-> IF loss >= 1000 \/ latency = None THEN NoLatency
                  ELSE latency[1],
   packet_loss_pct |-> loss,
   status |-> IF loss >= 1000 THEN "RTO"
              ELSE IF loss > 200 \/ (latency # None /\ latency[1] > 2000)
                   THEN "HIGH_LATENCY"
                   ELSE "OK"]

\* infra_probing.py 152-164
ProbeResults ==
  {[kecamatan |-> kec] @@ PingHost(l, t) :
     kec \in KECAMATAN_DB, l \in LossInputs, t \in LatencyInputs}

\* a / m for a small natural m
FDivSmall(a, m) == LET d == BigDiv(a, m) IN RoundBits(d.q, d.r # 0)

\* sum() over a list of tenths, added as floats from the left
RECURSIVE SumFrom(_, _, _)
SumFrom(xs, i, acc) ==
  IF i > Len(xs) THEN acc ELSE SumFrom(xs, i + 1, FAdd(acc, Float(xs[i], 10)))

\* round(sum(xs) / len(xs), 1), in tenths
Mean1(xs) == Round1(FDivSmall(SumFrom(xs, 1, <<>>), Len(xs)))

Column(rs, field) == [i \in 1..Len(rs) |-> rs[i][field]]

Count(xs, x) == Cardinality({i \in 1..Len(xs) : xs[i] = x})

\* infra_probing.py 181-236 (the anchors list and the counts are left out)
aggregate_probe_by_kecamatan(probe_results) ==
  [kec \in {probe_results[i].kecamatan : i \in 1..Len(probe_results)} |->
     LET IsKec(r) == r.kecamatan = kec
         HasLatency(r) == r.latency_ms >= 0
         rs == SelectSeq(probe_results, IsKec)
         latencies == Column(SelectSeq(rs, HasLatency), "latency_ms")
         statuses == Column(rs, "status")
         rto_count == Count(statuses, "RTO")
         high_lat_count == Count(statuses, "HIGH_LATENCY")
     IN [overall_status |->
           IF rto_count = Len(statuses) THEN "DOWN"
           ELSE IF rto_count > 0 \/ high_lat_count > 0 THEN "DEGRADED"
                ELSE "OK",
         avg_latency |-> IF latencies # <<>> THEN Mean1(latencies)
                         ELSE NoLatency,
         avg_packet_loss |-> Mean1(Column(rs, "packet_loss_pct"))]]

\* infra_probing.py 254-257 for one DEGRADED region; the result is in tenths
DegradedScore(avg_loss, avg_lat) ==
  LET hundred == Float(100, 1)
      loss == Float(avg_loss, 10)
      loss_score == IF FLess(hundred, loss) THEN <<>> ELSE FSub(hundred, loss)
      lat == FDivSmall(Float(Max(avg_lat, 0), 10), 10)
      lat_score == IF avg_lat > 0
                   THEN (IF FLess(hundred, lat) THEN <<>>
                         ELSE FSub(hundred, lat))
                   ELSE Float(50, 1)
  IN Round1(FDivSmall(FAdd(loss_score, lat_score), 2))

\* infra_probing.py 239-261
get_infra_score(kecamatan_aggregation) ==
  [kec \in DOMAIN kecamatan_aggregation |->
     LET d == kecamatan_aggregation[kec]
     IN IF d.overall_status = "DOWN" THEN 0
        ELSE IF d.overall_status = "DEGRADED"
             THEN DegradedScore(d.avg_packet_loss, d.avg_latency)
             ELSE 1000]

Lists(S, n) == UNION {[1..k -> S] : k \in 1..n}

InfraInputs ==
  {[fn |-> "infra", probe_results |-> rs, probe_agg |-> None,
    infra_scores |-> None] : rs \in Lists(ProbeResults, MaxAnchors)}

\* app.py 135
AggregateProbeByKecamatan ==
  /\ app.fn = "infra"
  /\ app.probe_agg = None
  /\ app' = [app EXCEPT
               !.probe_agg = Some(aggregate_probe_by_kecamatan(app.probe_results))]
  /\ UNCHANGED <<store, now, importable, pc, locals, hist>>

\* app.py 136
GetInfraScore ==
  /\ app.fn = "infra"
  /\ app.probe_agg # None
  /\ app.infra_scores = None
  /\ app' = [app EXCEPT !.infra_scores = Some(get_infra_score(app.probe_agg[1]))]
  /\ UNCHANGED <<store, now, importable, pc, locals, hist>>

\* ------------------------------------------------------------ load_all_data
MaxSignals == 2

\* nlp_processor.py 37-62: kecamatan names, then kota / kabupaten names,
\* sorted longest first (no name of this selection contains another one)
LOCATION_GAZETTEER == <<"Lampung Selatan", "Bandar Lampung", "Kedaton", "Natar">>

\* nlp_processor.py 86-118, on the set of gazetteer names a text contains
extract_locations(mentioned) ==
  LET Found(location) == location \in mentioned
  IN SelectSeq(LOCATION_GAZETTEER, Found)

\* nlp_processor.py 230-258
process_complaint(raw) ==
  LET locations == extract_locations(raw.mentioned)
  IN [primary_location |-> IF locations # <<>> THEN locations[1]
                           ELSE "Unknown",
      sentiment_score |-> raw.sentiment,
      severity |-> raw.severity,
      is_digital_issue |-> raw.digital]

\* nlp_processor.py 261-267
process_batch(raw_complaints) ==
  [i \in 1..Len(raw_complaints) |-> process_complaint(raw_complaints[i])]

\* social_signal.py 42-101; sentiments are never positive, so the mean is
\* taken on magnitudes (latest_reports and providers are left out)
aggregate_by_kecamatan(processed_signals) ==
  LET IsDigital(sig) == sig.is_digital_issue
      Located(sig) == sig.primary_location # "Unknown"
      digital_signals == SelectSeq(SelectSeq(processed_signals, IsDigital),
                                   Located)
  IN [kec \in {digital_signals[i].primary_location :
                 i \in 1..Len(digital_signals)} |->
        LET IsKec(sig) == sig.primary_location = kec
            sigs == SelectSeq(digital_signals, IsKec)
            magnitudes == [i \in 1..Len(sigs) |-> Abs(sigs[i].sentiment_score)]
            severities == {sigs[i].severity : i \in 1..Len(sigs)}
            RECURSIVE Sum100(_, _)
            Sum100(i, acc) ==
              IF i > Len(magnitudes) THEN acc
              ELSE Sum100(i + 1, FAdd(acc, Float(magnitudes[i], 100)))
        IN [complaint_count |-> Len(sigs),
            avg_sentiment |->
              0 - Round2(FDivSmall(Sum100(1, <<>>), Len(sigs))),
            max_severity |-> IF "critical" \in severities THEN "critical"
                             ELSE IF "warning" \in severities THEN "warning"
                                  ELSE "normal"]]

\* what the scraper hands to process_batch: per item, the gazetteer names
\* its text contains and what the other NLP steps make of the text
RawSignals ==
  {[mentioned |-> m, sentiment |-> s, severity |-> "warning", digital |-> d] :
     m \in {{}, {"Kedaton"}, {"Kedaton", "Bandar Lampung"}},
     s \in {-55, -30},
     d \in BOOLEAN}

LoadInputs ==
  {[fn |-> "load", raw_signals |-> rs] :
     rs \in {<<>>} \cup Lists(RawSignals, MaxSignals)}

\* app.py 123-146, with no earthquake, no weather warning and no anchor
load_all_data(raw_signals) ==
  LET social_signals == process_batch(raw_signals)
      social_agg == aggregate_by_kecamatan(social_signals)
  IN [social_signals |-> social_signals,
      social_agg |-> social_agg,
      social_scores |-> get_social_score(social_agg),
      disaster_data |-> [risk_map |-> <<>>],
      infra_scores |-> <<>>]

\* app.py 321
LoadAllData ==
  /\ app.fn = "load"
  /\ app' = [fn |-> "status", data |-> load_all_data(app.raw_signals),
             statuses |-> None]
  /\ UNCHANGED <<store, now, importable, pc, locals, hist>>

\* ------------------------------------------------ get_combined_disaster_risk
MaxEvents == 2

RiskLevelReversed(risk_str) ==
  CASE risk_str = "HIGH" -> 1
    [] risk_str = "MEDIUM" -> 2
    [] risk_str = "LOW" -> 3
    [] OTHER -> 0

\* disaster_correlation.py 123-125
risk_level(risk_str) ==
  CASE risk_str = "HIGH" -> 3
    [] risk_str = "MEDIUM" -> 2
    [] risk_str = "LOW" -> 1
    [] OTHER -> 0

\* disaster_correlation.py 72-80; the magnitude is in tenths
QuakeRisk(mag) ==
  IF mag >= 50 THEN "HIGH" ELSE IF mag >= 40 THEN "MEDIUM" ELSE "LOW"

\* disaster_correlation.py 109-110
WarningRisk(level) ==
  CASE level = "ALERT" -> "HIGH"
    [] level = "WARNING" -> "MEDIUM"
    [] level = "ADVISORY" -> "LOW"
    [] OTHER -> "LOW"

\* disaster_correlation.py 84-91 and 113-118: the entry of every kecamatan
\* in reach is set unless it already holds a risk at least as high
Mark(affected, reach, risk) ==
  [kec \in DOMAIN affected \cup reach |->
     IF /\ kec \in reach
        /\ \/ kec \notin DOMAIN affected
           \/ risk_level(risk) > risk_level(affected[kec].risk)
     THEN [risk |-> risk]
     ELSE affected[kec]]

\* disaster_correlation.py 56-93; within holds the kecamatan of KECAMATAN_DB
\* whose haversine distance to the epicentre is at most the radius
RECURSIVE EarthquakesFrom(_, _, _)
EarthquakesFrom(earthquakes, i, affected) ==
  IF i > Len(earthquakes) THEN affected
  ELSE EarthquakesFrom(earthquakes, i + 1,
         Mark(affected, earthquakes[i].within,
              QuakeRisk(earthquakes[i].magnitude)))

assess_earthquake_risk(earthquakes) == EarthquakesFrom(earthquakes, 1, <<>>)

\* disaster_correlation.py 96-120
RECURSIVE WarningsFrom(_, _, _)
WarningsFrom(weather_warnings, i, affected) ==
  IF i > Len(weather_warnings) THEN affected
  ELSE WarningsFrom(weather_warnings, i + 1,
         Mark(affected, weather_warnings[i].affected_kecamatan,
              WarningRisk(weather_warnings[i].level)))

assess_weather_risk(weather_warnings) == WarningsFrom(weather_warnings, 1, <<>>)

\* disaster_correlation.py 128-173 (causes, details and metadata left out)
get_combined_disaster_risk(d) ==
  LET eq_risk == assess_earthquake_risk(d.earthquakes)
      weather_risk == assess_weather_risk(d.weather_warnings)
      all_kecamatan == DOMAIN eq_risk \cup DOMAIN weather_risk
      Higher(kec, risks, max_risk) ==
        IF /\ kec \in DOMAIN risks
           /\ risk_level(risks[kec].risk) > risk_level(max_risk)
        THEN risks[kec].risk ELSE max_risk
  IN [risk_map |->
        [kec \in all_kecamatan |->
           [risk |-> Higher(kec, weather_risk, Higher(kec, eq_risk, "LOW"))]]]

\* what fetch_disaster_data returns
Earthquakes ==
  {[magnitude |-> m, within |-> w] :
     m \in {35, 45, 50}, w \in {{"Kedaton"}, KECAMATAN_DB}}

WeatherWarnings ==
  {[level |-> l, affected_kecamatan |-> a] :
     l \in {"ALERT", "WARNING", "ADVISORY", "INFO"},
     a \in {{"Kedaton"}}}

RiskInputs ==
  {[fn |-> "risk", fetched |-> [earthquakes |-> e, weather_warnings |-> w],
    disaster_data |-> None] :
     e \in {<<>>} \cup Lists(Earthquakes, MaxEvents),
     w \in {<<>>} \cup Lists(WeatherWarnings, MaxEvents)}

\* app.py 131
GetCombinedDisasterRisk ==
  /\ app.fn = "risk"
  /\ app.disaster_data = None
  /\ app' = [app EXCEPT
               !.disaster_data = Some(get_combined_disaster_risk(app.fetched))]
  /\ UNCHANGED <<store, now, importable, pc, locals, hist>>

\* --------------------------------------------------------------- assembly
AppInputs ==
  StatusInputs \cup SocialInputs \cup InfraInputs \cup LoadInputs
    \cup RiskInputs

InitApp ==
  /\ Unbuilt
  /\ importable = TRUE
  /\ app \in AppInputs

NextApp ==
  \/ ComputeKecamatanStatus
  \/ GetSocialScore
  \/ AggregateProbeByKecamatan
  \/ GetInfraScore
  \/ LoadAllData
  \/ GetCombinedDisasterRisk

SpecApp == InitApp /\ [][NextApp]_vars

\* ------------------------------------------------------------------ C21..
\* the classifier as the documentation states it, in exact arithmetic:
\* scores in tenths, the combined score in hundredths
SpecifiedCombined(social, infra, risk) ==
  4 * social + 4 * infra + 20 * Term(risk)

SpecifiedStatus(social, infra, risk) ==
  LET combined == SpecifiedCombined(social, infra, risk)
  IN IF combined < 3000 \/ (social < 400 /\ (risk # "NONE" \/ infra < 500))
     THEN "CRITICAL"
     ELSE IF combined < 6000 \/ social < 600 \/ infra < 600 THEN "WARNING"
          ELSE "NORMAL"

Classified == app.fn = "status" /\ app.statuses # None

\* the inputs of region kec after the defaults are applied
SocialOf(kec) == Get(app.data.social_scores, kec, 1000)
InfraOf(kec) == Get(app.data.infra_scores, kec, 1000)
RiskOf(kec) == Get(app.data.disaster_data.risk_map, kec, [risk |-> "NONE"]).risk
StatusOf(kec) == app.statuses[1][kec]

\* C21: for every region of KECAMATAN_DB and every input, the status that
\* compute_kecamatan_status assigns is the one the documented classifier
\* assigns to the same (defaulted) inputs.
C21_AgreesWithSpecifiedClassifier ==
  Classified =>
    \A kec \in KECAMATAN_DB :
      StatusOf(kec).status
        = SpecifiedStatus(SocialOf(kec), InfraOf(kec), RiskOf(kec))

\* the worked example of the documentation: Classify(20, 80, NONE)
IsExample20_80(kec) ==
  SocialOf(kec) = 200 /\ InfraOf(kec) = 800 /\ RiskOf(kec) = "NONE"

\* C22 as stated: the inputs (20, 80, NONE) give combined score 60 and
\* status NORMAL.
C22_ExampleIsNormal ==
  Classified =>
    \A kec \in KECAMATAN_DB :
      IsExample20_80(kec) =>
        /\ StatusOf(kec).combined_score = 600
        /\ StatusOf(kec).status = "NORMAL"

\* C22 as amended: the inputs (20, 80, NONE) give combined score 60 (exactly,
\* before rounding too) and status WARNING, because social_score < 60.
C22_ExampleIsWarning ==
  Classified =>
    \A kec \in KECAMATAN_DB :
      IsExample20_80(kec) =>
        /\ Combined(SocialOf(kec), InfraOf(kec), RiskOf(kec)) = Float(60, 1)
        /\ StatusOf(kec).combined_score = 600
        /\ StatusOf(kec).status = "WARNING"

C22_Witness ==
  /\ Classified
  /\ IsExample20_80("Kedaton")
  /\ "Kedaton" \notin DOMAIN app.data.disaster_data.risk_map

\* the local correlation of rule 1
Correlated(kec) ==
  SocialOf(kec) < 400 /\ (RiskOf(kec) # "NONE" \/ InfraOf(kec) < 500)

\* C23: rule 1 comes first: every region with social_score < 40 and (a risk
\* other than NONE, or infra_score < 50) is CRITICAL whatever its combined
\* score; (35, 45, HIGH) has combined score 32 and is CRITICAL.
C23_RuleOneFirst ==
  Classified =>
    \A kec \in KECAMATAN_DB :
      /\ Correlated(kec) => StatusOf(kec).status = "CRITICAL"
      /\ (SocialOf(kec) = 350 /\ InfraOf(kec) = 450 /\ RiskOf(kec) = "HIGH")
           => /\ StatusOf(kec).combined_score = 320
              /\ StatusOf(kec).status = "CRITICAL"

\* a correlated region whose combined score is 30 or more has been classified
C23_Witness ==
  /\ Classified
  /\ SocialOf("Kedaton") = 350 /\ InfraOf("Kedaton") = 450
  /\ RiskOf("Kedaton") = "HIGH"
  /\ StatusOf("Kedaton").combined_score >= 300

SocialScored == app.fn = "social" /\ app.social_scores # None
InfraScored == app.fn = "infra" /\ app.infra_scores # None

StatusesOf(kec) ==
  {app.probe_results[i].status :
     i \in {j \in 1..Len(app.probe_results) :
              app.probe_results[j].kecamatan = kec}}

\* C24: the scores handed to the classifier lie within [0, 100] (0..1000
\* tenths), whatever the aggregation; get_infra_score gives 0 to a region
\* whose anchors are all RTO and 100 to a region with no RTO and no
\* HIGH_LATENCY anchor.
C24_ScoresInRange ==
  /\ SocialScored =>
       \A kec \in DOMAIN app.social_scores[1] :
         app.social_scores[1][kec] \in 0..1000
  /\ InfraScored =>
       \A kec \in DOMAIN app.infra_scores[1] :
         /\ app.infra_scores[1][kec] \in 0..1000
         /\ StatusesOf(kec) = {"RTO"} => app.infra_scores[1][kec] = 0
         /\ StatusesOf(kec) = {"OK"} => app.infra_scores[1][kec] = 1000

\* a DEGRADED region, partly RTO, has been scored strictly inside the range
C24_Witness ==
  /\ InfraScored
  /\ StatusesOf("Kedaton") = {"RTO", "HIGH_LATENCY"}
  /\ app.infra_scores[1]["Kedaton"] \in 1..999

\* ----------------------------------------------------- the store, continued
\* the fetch cycle whose results a snapshot holds (cycles are numbered in the
\* order in which they start)
CycleOf(d) == d[1]["social_signals"]

\* C25: the current snapshot never regresses: a snapshot is never replaced
\* by the snapshot of a cycle that started earlier than its own cycle.
C25_SnapshotNeverRegresses ==
  [][(data # None /\ data' # None) => CycleOf(data') >= CycleOf(data)]_vars

\* threads between the swap of line 123 and the increment of line 128
Swapping == {t \in Threads : pc[t] = "L125"}

C27_LoopIntervalAtLeastFloor ==
  /\ [](lockObj # 0 => refresh_interval >= MIN_REFRESH_INTERVAL)
  /\ [][\A b \in BgThreads :
          (pc[b] = "L147" /\ pc'[b] = "L149") =>
            deadline'[b] >= now + MIN_REFRESH_INTERVAL]_vars

\* the region keys the producers of the classified data reported
ReportedKeys ==
  DOMAIN app.data.social_scores \cup DOMAIN app.data.infra_scores
    \cup DOMAIN app.data.disaster_data.risk_map

\* C28: every region key of social_scores, infra_scores or the risk_map has
\* an entry in the status map, so no producer's signal is dropped.
C28_JoinCoverage ==
  Classified => ReportedKeys \subseteq DOMAIN app.statuses[1]

\* the order of the risk levels
RiskRank(r) ==
  CASE r = "NONE" -> 0 [] r = "LOW" -> 1 [] r = "MEDIUM" -> 2 [] r = "HIGH" -> 3

RiskMapped == app.fn = "risk" /\ app.disaster_data # None

\* the risks of the fetched events that affect kec, whatever their order
RisksAffecting(kec) ==
  LET e == app.fetched.earthquakes
      w == app.fetched.weather_warnings
  IN {QuakeRisk(e[i].magnitude) :
        i \in {j \in 1..Len(e) : kec \in e[j].within}}
     \cup {WarningRisk(w[i].level) :
        i \in {j \in 1..Len(w) : kec \in w[j].affected_kecamatan}}

\* C29: the risk_map has an entry exactly for the regions some earthquake or
\* weather warning affects; its risk is LOW, MEDIUM or HIGH, never NONE, and
\* is the highest risk among those events in whatever order they come; so
\* for the classifier 'kec in risk_map' and 'disaster_risk is not NONE' are
\* the same test.
C29_RiskMapEntries ==
  RiskMapped =>
    LET risk_map == app.disaster_data[1].risk_map
    IN /\ DOMAIN risk_map = {kec \in KECAMATAN_DB : RisksAffecting(kec) # {}}
       /\ \A kec \in DOMAIN risk_map :
            /\ risk_map[kec].risk \in Risks
            /\ risk_map[kec].risk \in RisksAffecting(kec)
            /\ \A r \in RisksAffecting(kec) :
                 RiskRank(r) <= RiskRank(risk_map[kec].risk)
       /\ \A kec \in KECAMATAN_DB :
            (kec \in DOMAIN risk_map)
              <=> (Get(risk_map, kec, [risk |-> "NONE"]).risk # "NONE")

\* a region hit by a strong earthquake, then by a weak one, then by a
\* weather warning, keeps the risk of the strong earthquake
C29_Witness ==
  /\ RiskMapped
  /\ Len(app.fetched.earthquakes) = 2
  /\ QuakeRisk(app.fetched.earthquakes[1].magnitude) = "HIGH"
  /\ QuakeRisk(app.fetched.earthquakes[2].magnitude) = "LOW"
  /\ "Kedaton" \in app.fetched.earthquakes[1].within
  /\ "Kedaton" \in app.fetched.earthquakes[2].within
  /\ \E i \in 1..Len(app.fetched.weather_warnings) :
       "Kedaton" \in app.fetched.weather_warnings[i].affected_kecamatan
  /\ app.disaster_data[1].risk_map["Kedaton"].risk = "HIGH"

\* the order of the statuses
Severity(status) ==
  CASE status = "NORMAL" -> 0 [] status = "WARNING" -> 1
    [] status = "CRITICAL" -> 2

\* the status compute_kecamatan_status gives a region with these inputs
StatusFor(social, infra, risk) ==
  StatusRule(social, infra, risk # "NONE", Combined(social, infra, risk))

\* C30: the classifier is monotone: from the inputs of any classified
\* region, a lower social_score, a lower infra_score or a higher
\* disaster_risk (the other two inputs kept) never gives a less severe
\* status than the one the region received.
C30_Monotone ==
  Classified =>
    \A kec \in KECAMATAN_DB :
      LET social == SocialOf(kec)
          infra == InfraOf(kec)
          risk == RiskOf(kec)
          got == Severity(StatusOf(kec).status)
      IN /\ \A lower \in {x \in ScoreInputs : x <= social} :
              Severity(StatusFor(lower, infra, risk)) >= got
         /\ \A lower \in {x \in ScoreInputs : x <= infra} :
              Severity(StatusFor(social, lower, risk)) >= got
         /\ \A higher \in {r \in Risks \cup {"NONE"} :
                             RiskRank(r) >= RiskRank(risk)} :
              Severity(StatusFor(social, infra, higher)) >= got

\* a region classified NORMAL, which has lower scores and higher risks to
\* be compared with
C30_Witness ==
  /\ Classified
  /\ SocialOf("Kedaton") = 800 /\ InfraOf("Kedaton") = 600
  /\ RiskOf("Kedaton") = "LOW"
  /\ StatusOf("Kedaton").status = "NORMAL"

====
